---- MODULE Spec2Model ----
(***************************************************************************)
(* A model of the todo backend of PicoEvanZhu/Devops:                      *)
(*   backend/azure_devops_client.py  AzureDevOpsClient                     *)
(*   backend/app.py                  list_all_todos                        *)
(*                                                                         *)
(* Strings are sequences of tokens.  A token is one of the characters the  *)
(* code treats specially (backslash, slash, blank, comma) or a word of a   *)
(* small vocabulary standing for a run of other characters.  No two words  *)
(* of the vocabulary concatenate to another word, so equality of token     *)
(* sequences is equality of the strings they stand for.                    *)
(***************************************************************************)
EXTENDS Integers, Sequences, FiniteSets, TLC

VARIABLES
    \* _normalize_tree_path applied to a path
    npPath,      \* the argument of _normalize_tree_path
    npOut,       \* _normalize_tree_path(npPath)
    npOut2,      \* _normalize_tree_path(npOut)
    npOps,       \* _build_patch_body({key: npPath}) without a project
    npPc,        \* "off" | "input" | "normalized" | "renormalized" | "patched"
    \* _build_patch_body applied to a payload
    bpData,      \* data
    bpProject,   \* project
    bpIndex,     \* existing_parent_index
    bpId,        \* existing_parent_id
    bpLookup,    \* what list_area_paths / list_iteration_paths answer
    bpOps,       \* the returned operations
    bpPc,        \* "off" | "input" | "built"
    \* update_todo against the backend's work item
    item,        \* the work item the backend holds: state, estimates, relations
    utData,      \* data
    utIndex,     \* existing_parent_index
    utId,        \* existing_parent_id
    utOps,       \* the patch body submitted
    utAnswers,   \* how the backend answered the requests of the running call
    utError,     \* whether update_todo raised
    utCount,     \* calls made so far
    utPc,        \* "off" | "idle" | "preread" | "submit" | "done"
    \* query_todos against the backend's query and hydration endpoints
    qInput,      \* the arguments of the caller's query_todos call
    qArgs,       \* the arguments of the running call (the retry is a second call)
    qSent,       \* the queries POSTed to the wiql endpoint, in order
    qAnswers,    \* the status codes the wiql endpoint answered them with
    qIds,        \* ids: the window of the work item ids the query returned
    qResult,     \* the list query_todos returned
    qStatus,     \* the status code of the exception query_todos raised, or 0
    qPc,         \* "off" | "call" | "wiql" | "hydrate" | "returned" | "raised"
    \* list_all_todos fanning query_todos out over the projects
    aggMatching, \* per project, the items its query matches, newest first
    aggPage,     \* page
    aggPageSize, \* page_size
    aggStatus,   \* per project, "pending" | "ok" | "failed": how its fetch ended
    aggOrder,    \* the projects in the order as_completed yielded them
    aggregated,  \* aggregated
    aggResponse, \* the response: todos, hasMore, error
    aggPc,       \* "off" | "fetching" | "done"
    \* list_descendants hydrating the ids of its query in chunks
    hdIds,       \* ids
    hdSent,      \* the id lists of the hydration calls issued, in order
    hdReturned,  \* per hydration call, the number of records the backend returned
    hdResults,   \* results
    hdPc,        \* "off" | "call" | "hydrate" | "returned" | "raised"
    \* query_todos cutting its page out of the ids of the query
    pgPage,      \* page, as passed
    pgPageSize,  \* page_size, as passed
    pgWorkItems, \* work_items: the ids the query answered, in its order
    pgUsed,      \* (page, page_size) after the clamps
    pgIds,       \* ids
    pgResult,    \* the list returned
    pgPc,        \* "off" | "call" | "hydrate" | "returned"
    \* list_tags, list_area_paths and list_iteration_paths
    lsTagPages,  \* the pages of tag names the tags endpoint answers with, in order
    lsTree,      \* the root node the classification endpoint answers with
    lsCall,      \* the method called, or "none"
    lsFetched,   \* the pages list_tags has read
    lsTags,      \* tags, as list_tags accumulates it
    lsResult,    \* the list returned
    lsPc,        \* "off" | "idle" | "tags" | "returned"
    \* update_todo called by several callers on one work item
    ccItem,      \* the work item the backend holds
    ccData,      \* per caller, data
    ccIndex,     \* per caller, existing_parent_index
    ccId,        \* per caller, existing_parent_id
    ccRead,      \* per caller, the relation its pre-read found at existing_parent_index
    ccRemovals,  \* the positional removals the backend applied, in order
    ccPc         \* per caller, "off" | "idle" | "preread" | "submit" | "done"

pathVars == <<npPath, npOut, npOut2, npOps, npPc>>
patchVars == <<bpData, bpProject, bpIndex, bpId, bpLookup, bpOps, bpPc>>

updateVars == <<item, utData, utIndex, utId, utOps, utAnswers, utError, utCount, utPc>>

queryVars == <<qInput, qArgs, qSent, qAnswers, qIds, qResult, qStatus, qPc>>

aggVars ==
    <<aggMatching, aggPage, aggPageSize, aggStatus, aggOrder, aggregated, aggResponse, aggPc>>

hydrateVars == <<hdIds, hdSent, hdReturned, hdResults, hdPc>>

pageVars == <<pgPage, pgPageSize, pgWorkItems, pgUsed, pgIds, pgResult, pgPc>>

listVars == <<lsTagPages, lsTree, lsCall, lsFetched, lsTags, lsResult, lsPc>>

concVars == <<ccItem, ccData, ccIndex, ccId, ccRead, ccRemovals, ccPc>>

vars == <<pathVars, patchVars, updateVars, queryVars, aggVars, hydrateVars, pageVars, listVars, concVars>>

-----------------------------------------------------------------------------
(* Bounds *)

MaxPathLen == 5      \* tokens in a tree path
MaxTouched == 3      \* keys present in a payload of _build_patch_body
MaxUpdateKeys == 2   \* keys present in a payload of update_todo
MaxUpdates == 2      \* update_todo calls in a run
MaxKeywordLen == 2   \* tokens in a keyword
MaxTypes == 2        \* comma-separated elements of a type filter
NumWorkItems == 3    \* work items a project's query matches
NumProjects == 3     \* projects list_projects returns
MaxFailures == 1     \* per-project fetches that fail in a run
MaxIds == 450        \* ids the link query of list_descendants answers
MaxPage == 3         \* page numbers passed to query_todos
MaxPageSize == 202   \* page sizes passed to query_todos
MaxTagPages == 2     \* pages the tags endpoint answers with
MaxPageTags == 2     \* tags on a page
MaxChildren == 2     \* children of the root of a classification tree
NumCallers == 2      \* callers of update_todo on the same work item

-----------------------------------------------------------------------------
(* Python str / list primitives on token sequences *)

BACKSLASH == "\\"
SLASH == "/"
BLANK == " "
COMMA == ","

\* str.lower() of one token
LowerTok(t) ==
    CASE t = "Area" -> "area"
      [] t = "ITERATION" -> "iteration"
      [] t = "Backend" -> "backend"
      [] t = "Proj" -> "proj"
      [] t = "Closed" -> "closed"
      [] t = "CLOSED" -> "closed"
      [] t = "Resolved" -> "resolved"
      [] t = "Active" -> "active"
      [] OTHER -> t

\* str.lower()
Lower(s) == [i \in 1..Len(s) |-> LowerTok(s[i])]

\* str.lstrip(chars)
RECURSIVE LStripChars(_, _)
LStripChars(s, chars) ==
    IF s # <<>> /\ Head(s) \in chars THEN LStripChars(Tail(s), chars) ELSE s

\* str.rstrip(chars)
RECURSIVE RStripChars(_, _)
RStripChars(s, chars) ==
    IF s # <<>> /\ s[Len(s)] \in chars
    THEN RStripChars(SubSeq(s, 1, Len(s) - 1), chars)
    ELSE s

\* str.strip(): whitespace off both ends
Strip(s) == RStripChars(LStripChars(s, {BLANK}), {BLANK})

\* str.split(sep): the parts between the separators, empty parts kept
RECURSIVE Split(_, _)
Split(s, sep) ==
    IF \E i \in 1..Len(s) : s[i] = sep
    THEN LET i == CHOOSE k \in 1..Len(s) :
                     s[k] = sep /\ \A j \in 1..(k - 1) : s[j] # sep
         IN  <<SubSeq(s, 1, i - 1)>> \o Split(SubSeq(s, i + 1, Len(s)), sep)
    ELSE <<s>>

\* sep.join(parts), sep a token sequence
RECURSIVE Join(_, _)
Join(parts, sep) ==
    IF parts = <<>> THEN <<>>
    ELSE IF Len(parts) = 1 THEN parts[1]
    ELSE parts[1] \o sep \o Join(Tail(parts), sep)

\* list.pop(i), i a Python index
PopAt(parts, i) ==
    [k \in 1..(Len(parts) - 1) |-> IF k <= i THEN parts[k] ELSE parts[k + 1]]

\* str.endswith(suffix)
EndsWith(s, suffix) ==
    /\ Len(s) >= Len(suffix)
    /\ SubSeq(s, Len(s) - Len(suffix) + 1, Len(s)) = suffix

-----------------------------------------------------------------------------
(* AzureDevOpsClient._normalize_tree_path *)

ContainerNames == {<<"area">>, <<"iteration">>}

_normalize_tree_path(path) ==
    LET cleaned == Strip(LStripChars(path, {BACKSLASH, SLASH}))
        parts   == Split(cleaned, BACKSLASH)
        popped  == IF Len(parts) > 1 /\ Lower(parts[2]) \in ContainerNames
                   THEN PopAt(parts, 1)
                   ELSE parts
    IN  Join(popped, <<BACKSLASH>>)

-----------------------------------------------------------------------------
(* Values of a JSON payload: None, numbers, strings, lists of strings *)

NONE == [tag |-> "none"]
Num(n) == [tag |-> "num", val |-> n]
Str(s) == [tag |-> "str", val |-> s]
List(l) == [tag |-> "list", val |-> l]

\* data.get(key)
Get(data, key) == IF key \in DOMAIN data THEN data[key] ELSE NONE

-----------------------------------------------------------------------------
(* AzureDevOpsClient._build_patch_body *)

\* the keys of `mapping`, in the order the dict is written
MappingKeys ==
    <<"title", "description", "state", "priority", "assignedTo", "areaPath",
      "iterationPath", "originalEstimate", "remaining", "plannedStartDate",
      "targetDate", "requester">>

FieldPath(key) ==
    CASE key = "title" -> "/fields/System.Title"
      [] key = "description" -> "/fields/System.Description"
      [] key = "state" -> "/fields/System.State"
      [] key = "priority" -> "/fields/Microsoft.VSTS.Common.Priority"
      [] key = "assignedTo" -> "/fields/System.AssignedTo"
      [] key = "areaPath" -> "/fields/System.AreaPath"
      [] key = "iterationPath" -> "/fields/System.IterationPath"
      [] key = "originalEstimate" -> "/fields/Microsoft.VSTS.Scheduling.OriginalEstimate"
      [] key = "remaining" -> "/fields/Microsoft.VSTS.Scheduling.RemainingWork"
      [] key = "plannedStartDate" -> "/fields/Microsoft.VSTS.Scheduling.StartDate"
      [] key = "targetDate" -> "/fields/Microsoft.VSTS.Scheduling.FinishDate"
      [] key = "requester" -> "/fields/Custom.Requester"

OriginalEstimatePath == FieldPath("originalEstimate")
RemainingWorkPath == FieldPath("remaining")
TagsPath == "/fields/System.Tags"

AddOp(path, value) == [op |-> "add", path |-> path, value |-> value]
RemoveRelationOp(index) == [op |-> "remove", path |-> "/relations", index |-> index]
\* a relation's url: one of a work item (".../workItems/<suffix>") or another
WorkItemUrl(suffix) == [tag |-> "workItems", suffix |-> suffix]
OtherUrl == [tag |-> "other"]
HierarchyReverse == "System.LinkTypes.Hierarchy-Reverse"
ParentRelation(id) == [rel |-> HierarchyReverse, url |-> WorkItemUrl(Num(id))]
AddRelationOp(id) == [op |-> "add", path |-> "/relations/-", value |-> ParentRelation(id)]

\* the outcome of list_area_paths / list_iteration_paths: an exception or a list
LookupFailed == [tag |-> "error"]
LookupPaths(paths) == [tag |-> "paths", val |-> paths]

\* one pass of the loop over `mapping`: the operations appended for `key`
FieldOps(key, data, project, areaLookup, iterLookup) ==
    IF key \notin DOMAIN data THEN <<>>
    ELSE
    LET value == data[key]
        allow_none == key \in {"plannedStartDate", "targetDate"}
    IN
    IF value = NONE /\ ~allow_none THEN <<>>
    ELSE IF key \in {"areaPath", "iterationPath"} /\ value.tag = "str" THEN
        LET norm == _normalize_tree_path(value.val)
            lower_val == Lower(norm)
            lookup == IF key = "areaPath" THEN areaLookup ELSE iterLookup
        IN
        IF \/ lower_val \in ContainerNames
           \/ EndsWith(lower_val, <<BACKSLASH, "area">>)
           \/ EndsWith(lower_val, <<BACKSLASH, "iteration">>)
        THEN <<>>
        ELSE IF project # <<>> /\ lookup # LookupFailed
                /\ norm \notin {_normalize_tree_path(lookup.val[i]) : i \in 1..Len(lookup.val)}
        THEN <<>>
        ELSE <<AddOp(FieldPath(key), Str(norm))>>
    ELSE <<AddOp(FieldPath(key), value)>>

RECURSIVE MappingOps(_, _, _, _, _)
MappingOps(keys, data, project, areaLookup, iterLookup) ==
    IF keys = <<>> THEN <<>>
    ELSE FieldOps(Head(keys), data, project, areaLookup, iterLookup)
         \o MappingOps(Tail(keys), data, project, areaLookup, iterLookup)

ClosedStates == {<<"closed">>, <<"resolved">>}

\* str(data.get("state") or "").lower() in ("closed", "resolved")
IsClosedIn(data) ==
    LET s == Get(data, "state")
    IN  s.tag = "str" /\ Lower(s.val) \in ClosedStates

\* the mirror without its closed-state exception
MirrorRemainingIgnoringState(data) ==
    LET original == Get(data, "originalEstimate")
        remaining == Get(data, "remaining")
    IN  IF /\ original # NONE
           /\ ("remaining" \notin DOMAIN data \/ remaining = NONE)
        THEN <<AddOp(RemainingWorkPath, original)>>
        ELSE <<>>

\* the OriginalEstimate -> RemainingWork mirror
MirrorRemainingOps(data) ==
    LET original == Get(data, "originalEstimate")
        remaining == Get(data, "remaining")
    IN  IF /\ original # NONE
           /\ ("remaining" \notin DOMAIN data \/ remaining = NONE)
           /\ ~IsClosedIn(data)
        THEN <<AddOp(RemainingWorkPath, original)>>
        ELSE <<>>

\* the mirror with the closed-state exception of the other direction
MirrorOriginalUnlessClosed(data) ==
    LET original == Get(data, "originalEstimate")
        remaining == Get(data, "remaining")
    IN  IF /\ remaining # NONE
           /\ ("originalEstimate" \notin DOMAIN data \/ original = NONE)
           /\ ~IsClosedIn(data)
        THEN <<AddOp(OriginalEstimatePath, remaining)>>
        ELSE <<>>

\* the RemainingWork -> OriginalEstimate mirror
MirrorOriginalOps(data) ==
    LET original == Get(data, "originalEstimate")
        remaining == Get(data, "remaining")
    IN  IF /\ remaining # NONE
           /\ ("originalEstimate" \notin DOMAIN data \/ original = NONE)
        THEN <<AddOp(OriginalEstimatePath, remaining)>>
        ELSE <<>>

TagsOps(data) ==
    IF "tags" \in DOMAIN data /\ data["tags"] # NONE
    THEN LET tags_value == data["tags"]
         IN  <<AddOp(TagsPath,
                     IF tags_value.tag = "list"
                     THEN Str(Join(tags_value.val, <<";", BLANK>>))
                     ELSE tags_value)>>
    ELSE <<>>

\* int(new_parent_raw), None when it raises
IntOrNone(v) ==
    CASE v.tag = "num" -> v
      [] v.tag = "str" /\ v.val = <<"1">> -> Num(1)
      [] v.tag = "str" /\ v.val = <<"2">> -> Num(2)
      [] OTHER -> NONE

\* the parent operations when the new id is never compared with the current one
ParentOpsWithoutDiff(data, existing_parent_index, existing_parent_id) ==
    IF "parentId" \notin DOMAIN data THEN <<>>
    ELSE
    LET new_parent_id == IntOrNone(data["parentId"])
    IN
    IF new_parent_id = NONE
    THEN IF existing_parent_index # NONE
         THEN <<RemoveRelationOp(existing_parent_index.val)>>
         ELSE <<>>
    ELSE (IF existing_parent_index # NONE
          THEN <<RemoveRelationOp(existing_parent_index.val)>>
          ELSE <<>>)
         \o <<AddRelationOp(new_parent_id.val)>>

ParentOps(data, existing_parent_index, existing_parent_id) ==
    IF "parentId" \notin DOMAIN data THEN <<>>
    ELSE
    LET new_parent_id == IntOrNone(data["parentId"])
    IN
    IF new_parent_id = NONE
    THEN IF existing_parent_index # NONE
         THEN <<RemoveRelationOp(existing_parent_index.val)>>
         ELSE <<>>
    ELSE IF existing_parent_id = new_parent_id THEN <<>>
    ELSE (IF existing_parent_index # NONE
          THEN <<RemoveRelationOp(existing_parent_index.val)>>
          ELSE <<>>)
         \o <<AddRelationOp(new_parent_id.val)>>

\* the operations with those of the parent relation put first
_build_patch_bodyParentFirst(data, project, existing_parent_index, existing_parent_id, areaLookup, iterLookup) ==
    ParentOps(data, existing_parent_index, existing_parent_id)
    \o MappingOps(MappingKeys, data, project, areaLookup, iterLookup)
    \o MirrorRemainingOps(data)
    \o MirrorOriginalOps(data)
    \o TagsOps(data)

_build_patch_body(data, project, existing_parent_index, existing_parent_id, areaLookup, iterLookup) ==
    MappingOps(MappingKeys, data, project, areaLookup, iterLookup)
    \o MirrorRemainingOps(data)
    \o MirrorOriginalOps(data)
    \o TagsOps(data)
    \o ParentOps(data, existing_parent_index, existing_parent_id)

\* the operations of a patch on one path
OpsOn(ops, path) == {i \in 1..Len(ops) : ops[i].path = path}

-----------------------------------------------------------------------------
(* Inputs *)

\* all token sequences of length at most n over the alphabet
SeqsUpTo(alphabet, n) == UNION {[1..k -> alphabet] : k \in 0..n}

PathAlphabet == {BACKSLASH, SLASH, BLANK, "Area", "ITERATION", "Backend"}
PathInputs == SeqsUpTo(PathAlphabet, MaxPathLen)

PayloadKeys ==
    {"title", "state", "areaPath", "originalEstimate", "remaining", "targetDate",
     "tags", "parentId"}

PayloadValues(key) ==
    CASE key = "title" -> {NONE, Str(<<"T">>)}
      [] key = "state" ->
            {NONE, Str(<<>>), Str(<<"Active">>), Str(<<"Closed">>), Str(<<"CLOSED">>),
             Str(<<"Resolved">>), Str(<<BLANK, "Closed">>)}
      [] key = "areaPath" ->
            {Str(<<BACKSLASH, "Area">>), Str(<<"Backend">>), Str(<<"Stale">>)}
      [] key = "originalEstimate" -> {NONE, Num(0), Num(8)}
      [] key = "remaining" -> {NONE, Num(0), Num(5)}
      [] key = "targetDate" -> {NONE, Str(<<"2024-01-01">>)}
      [] key = "tags" -> {NONE, List(<<<<"a">>, <<"b">>>>)}
      [] key = "parentId" -> {NONE, Num(1), Num(2), Str(<<"x">>)}

\* the payloads with at most n keys present
Payloads(n) ==
    UNION {{d \in [K -> UNION {PayloadValues(k) : k \in K}] :
                \A k \in K : d[k] \in PayloadValues(k)} :
           K \in {S \in SUBSET PayloadKeys : Cardinality(S) <= n}}

\* (existing_parent_index, existing_parent_id) as update_todo can pass them
ExistingParents ==
    {<<NONE, NONE>>, <<Num(0), Num(1)>>, <<Num(1), Num(2)>>, <<Num(0), NONE>>}

Lookups == {LookupFailed, LookupPaths(<<>>), LookupPaths(<<<<"Proj">>, <<"Backend">>>>)}

-----------------------------------------------------------------------------
(* _normalize_tree_path on every path *)

PathOff ==
    /\ npPath = <<>> /\ npOut = <<>> /\ npOut2 = <<>> /\ npOps = <<>> /\ npPc = "off"

PatchOff ==
    /\ bpData = <<>> /\ bpProject = <<>> /\ bpIndex = NONE /\ bpId = NONE
    /\ bpLookup = LookupFailed /\ bpOps = <<>> /\ bpPc = "off"

NoItem == [state |-> <<>>, originalEstimate |-> NONE, remaining |-> NONE, relations |-> <<>>]

UpdateOff ==
    /\ item = NoItem /\ utData = <<>> /\ utIndex = NONE /\ utId = NONE
    /\ utOps = <<>> /\ utAnswers = <<>> /\ utError = FALSE /\ utCount = 0 /\ utPc = "off"

NoArgs ==
    [state |-> <<>>, keyword |-> <<>>, assigned_to |-> <<>>, work_item_type |-> <<>>,
     planned_from |-> <<>>, planned_to |-> <<>>, page |-> 1, page_size |-> 20]

QueryOff ==
    /\ qInput = NoArgs /\ qArgs = NoArgs /\ qSent = <<>> /\ qAnswers = <<>>
    /\ qIds = <<>>
    /\ qResult = <<>> /\ qStatus = 0 /\ qPc = "off"

NoResponse == [todos |-> <<>>, hasMore |-> FALSE, error |-> FALSE]

AggOff ==
    /\ aggMatching = <<>> /\ aggPage = 1 /\ aggPageSize = 20 /\ aggStatus = <<>>
    /\ aggOrder = <<>> /\ aggregated = <<>> /\ aggResponse = NoResponse /\ aggPc = "off"

HydrateOff ==
    /\ hdIds = <<>> /\ hdSent = <<>> /\ hdReturned = <<>> /\ hdResults = <<>> /\ hdPc = "off"

PageOff ==
    /\ pgPage = 1 /\ pgPageSize = 20 /\ pgWorkItems = <<>> /\ pgUsed = <<1, 20>>
    /\ pgIds = <<>> /\ pgResult = <<>> /\ pgPc = "off"

NoNode == [path |-> <<>>, name |-> <<>>, children |-> <<>>]

ListOff ==
    /\ lsTagPages = <<>> /\ lsTree = NoNode /\ lsCall = "none" /\ lsFetched = 0
    /\ lsTags = <<>>
    /\ lsResult = <<>> /\ lsPc = "off"

Callers == 1..NumCallers

ConcOff ==
    /\ ccItem = NoItem
    /\ ccData = [c \in Callers |-> <<>>]
    /\ ccIndex = [c \in Callers |-> NONE]
    /\ ccId = [c \in Callers |-> NONE]
    /\ ccRead = [c \in Callers |-> NONE]
    /\ ccRemovals = <<>>
    /\ ccPc = [c \in Callers |-> "off"]

PathInit ==
    /\ npPath \in PathInputs
    /\ npOut = <<>> /\ npOut2 = <<>> /\ npOps = <<>>
    /\ npPc = "input"
    /\ PatchOff /\ UpdateOff /\ QueryOff /\ AggOff /\ HydrateOff /\ PageOff /\ ListOff /\ ConcOff

NormalizePath ==
    /\ npPc = "input"
    /\ npOut' = _normalize_tree_path(npPath)
    /\ npPc' = "normalized"
    /\ UNCHANGED <<npPath, npOut2, npOps, patchVars, updateVars, queryVars, aggVars, hydrateVars,
                 pageVars, listVars, concVars>>

RenormalizePath ==
    /\ npPc = "normalized"
    /\ npOut2' = _normalize_tree_path(npOut)
    /\ npPc' = "renormalized"
    /\ UNCHANGED <<npPath, npOut, npOps, patchVars, updateVars, queryVars, aggVars, hydrateVars,
                 pageVars, listVars, concVars>>

\* create_todo's _build_patch_body(data) for a payload of one tree path
PatchPath ==
    /\ npPc = "normalized"
    /\ \E key \in {"areaPath", "iterationPath"} :
          npOps' = _build_patch_body([k \in {key} |-> Str(npPath)], <<>>, NONE, NONE,
                                     LookupFailed, LookupFailed)
    /\ npPc' = "patched"
    /\ UNCHANGED <<npPath, npOut, npOut2, patchVars, updateVars, queryVars, aggVars, hydrateVars,
                 pageVars, listVars, concVars>>

PathNext == NormalizePath \/ RenormalizePath \/ PatchPath

SpecPath == PathInit /\ [][PathNext]_vars

-----------------------------------------------------------------------------
(* _build_patch_body on every payload *)

PatchInit ==
    /\ bpData \in Payloads(MaxTouched)
    /\ bpProject \in {<<>>, <<"Proj">>}
    /\ \E e \in ExistingParents : bpIndex = e[1] /\ bpId = e[2]
    /\ bpLookup \in Lookups
    /\ bpOps = <<>>
    /\ bpPc = "input"
    /\ PathOff /\ UpdateOff /\ QueryOff /\ AggOff /\ HydrateOff /\ PageOff /\ ListOff /\ ConcOff

BuildPatch ==
    /\ bpPc = "input"
    /\ bpOps' = _build_patch_body(bpData, bpProject, bpIndex, bpId, bpLookup, bpLookup)
    /\ bpPc' = "built"
    /\ UNCHANGED <<bpData, bpProject, bpIndex, bpId, bpLookup, pathVars, updateVars, queryVars, aggVars,
                 hydrateVars, pageVars, listVars, concVars>>

PatchNext == BuildPatch

SpecPatch == PatchInit /\ [][PatchNext]_vars

-----------------------------------------------------------------------------
(* update_todo *)

UpdateKeys == {"title", "state", "originalEstimate", "remaining", "parentId"}

UpdateValues(key) ==
    CASE key = "title" -> {Str(<<"T">>)}
      [] key = "state" -> {Str(<<"Active">>), Str(<<"Closed">>)}
      [] key = "originalEstimate" -> {NONE, Num(8)}
      [] key = "remaining" -> {NONE, Num(5)}
      [] key = "parentId" -> {NONE, Num(1), Num(2)}

UpdatePayloads ==
    UNION {{d \in [K -> UNION {UpdateValues(k) : k \in K}] :
                \A k \in K : d[k] \in UpdateValues(k)} :
           K \in {S \in SUBSET UpdateKeys : Cardinality(S) <= MaxUpdateKeys}}

Related == [rel |-> "System.LinkTypes.Related", url |-> WorkItemUrl(Num(2))]

\* the relation lists a work item starts with: at most one parent
InitialRelations ==
    {<<>>, <<Related>>, <<ParentRelation(1)>>, <<Related, ParentRelation(1)>>,
     <<[rel |-> HierarchyReverse, url |-> WorkItemUrl(Str(<<"x">>))]>>,
     <<[rel |-> HierarchyReverse, url |-> OtherUrl]>>}

\* "Hierarchy-Reverse" in rel_name
IsParentRelation(r) == r.rel = HierarchyReverse

\* the positions (Python indices) of the parent relations
ParentPositions(relations) ==
    {i \in 0..(Len(relations) - 1) : IsParentRelation(relations[i + 1])}

\* the scan of the relations in update_todo: existing_parent_index
ScanIndex(relations) ==
    IF ParentPositions(relations) = {} THEN NONE
    ELSE Num(CHOOSE i \in ParentPositions(relations) :
                 \A j \in ParentPositions(relations) : i <= j)

\* the scan of the relations in update_todo: existing_parent_id
ScanId(relations) ==
    IF ScanIndex(relations) = NONE THEN NONE
    ELSE LET url == relations[ScanIndex(relations).val + 1].url
         IN  IF url.tag = "workItems" THEN IntOrNone(url.suffix) ELSE NONE

\* the backend applying one operation of a patch document to the work item
ApplyOp(it, op) ==
    IF op.op = "remove"
    THEN [it EXCEPT !.relations = PopAt(it.relations, op.index)]
    ELSE IF op.path = "/relations/-"
    THEN [it EXCEPT !.relations = Append(it.relations, op.value)]
    ELSE IF op.path = FieldPath("state")
    THEN [it EXCEPT !.state = op.value.val]
    ELSE IF op.path = OriginalEstimatePath
    THEN [it EXCEPT !.originalEstimate = op.value]
    ELSE IF op.path = RemainingWorkPath
    THEN [it EXCEPT !.remaining = op.value]
    ELSE it

RECURSIVE ApplyPatch(_, _)
ApplyPatch(it, ops) ==
    IF ops = <<>> THEN it ELSE ApplyPatch(ApplyOp(it, Head(ops)), Tail(ops))

\* every removal of a patch names a relation the work item has when it is reached
RECURSIVE Applicable(_, _)
Applicable(it, ops) ==
    IF ops = <<>> THEN TRUE
    ELSE /\ Head(ops).op = "remove" => Head(ops).index < Len(it.relations)
         /\ Applicable(ApplyOp(it, Head(ops)), Tail(ops))

UpdateInit ==
    /\ item \in [state : {<<"Active">>, <<"Closed">>, <<"Resolved">>},
                  originalEstimate : {NONE, Num(8)},
                  remaining : {NONE, Num(3)},
                  relations : InitialRelations]
    /\ utData = <<>> /\ utIndex = NONE /\ utId = NONE
    /\ utOps = <<>> /\ utAnswers = <<>> /\ utError = FALSE /\ utCount = 0
    /\ utPc = "idle"
    /\ PathOff /\ PatchOff /\ QueryOff /\ AggOff /\ HydrateOff /\ PageOff /\ ListOff /\ ConcOff

\* a request of update_todo and whether the backend answered it without an error
Answer(method, ok) == [method |-> method, ok |-> ok]

\* update_todo is called: the locals are initialised
UpdateCall ==
    /\ utPc = "idle"
    /\ utCount < MaxUpdates
    /\ \E data \in UpdatePayloads :
          /\ utData' = data
          /\ utPc' = IF "parentId" \in DOMAIN data THEN "preread" ELSE "submit"
    /\ utIndex' = NONE /\ utId' = NONE
    /\ utOps' = <<>> /\ utAnswers' = <<>> /\ utError' = FALSE
    /\ utCount' = utCount + 1
    /\ UNCHANGED <<item, pathVars, patchVars, queryVars, aggVars, hydrateVars, pageVars, listVars,
                 concVars>>

\* the relation-expanded GET answers: the relations are scanned
PreReadOk ==
    /\ utPc = "preread"
    /\ utIndex' = ScanIndex(item.relations)
    /\ utId' = ScanId(item.relations)
    /\ utAnswers' = Append(utAnswers, Answer("GET", TRUE))
    /\ utPc' = "submit"
    /\ UNCHANGED <<item, utData, utOps, utError, utCount, pathVars, patchVars, queryVars, aggVars,
                 hydrateVars, pageVars, listVars, concVars>>

\* the relation-expanded GET raises and the exception is let through
PreReadFailRaises ==
    /\ utPc = "preread"
    /\ utIndex' = NONE /\ utId' = NONE
    /\ utAnswers' = Append(utAnswers, Answer("GET", FALSE))
    /\ utError' = TRUE
    /\ utPc' = "done"
    /\ UNCHANGED <<item, utData, utOps, utCount, pathVars, patchVars, queryVars, aggVars,
                   hydrateVars, pageVars, listVars, concVars>>

\* the relation-expanded GET raises: the exception is swallowed
PreReadFail ==
    /\ utPc = "preread"
    /\ utIndex' = NONE /\ utId' = NONE
    /\ utAnswers' = Append(utAnswers, Answer("GET", FALSE))
    /\ utPc' = "submit"
    /\ UNCHANGED <<item, utData, utOps, utError, utCount, pathVars, patchVars, queryVars, aggVars,
                 hydrateVars, pageVars, listVars, concVars>>

UpdateBody == _build_patch_body(utData, <<"Proj">>, utIndex, utId, LookupFailed, LookupFailed)

\* the PATCH is accepted: the backend applies the whole document
SubmitOk ==
    /\ utPc = "submit"
    /\ Applicable(item, UpdateBody)
    /\ utOps' = UpdateBody
    /\ item' = ApplyPatch(item, UpdateBody)
    /\ utAnswers' = Append(utAnswers, Answer("PATCH", TRUE))
    /\ utError' = FALSE
    /\ utPc' = "done"
    /\ UNCHANGED <<utData, utIndex, utId, utCount, pathVars, patchVars, queryVars, aggVars,
                 hydrateVars, pageVars, listVars, concVars>>

\* the PATCH is rejected: _request raises and update_todo lets it through
SubmitFail ==
    /\ utPc = "submit"
    /\ utOps' = UpdateBody
    /\ utAnswers' = Append(utAnswers, Answer("PATCH", FALSE))
    /\ utError' = TRUE
    /\ utPc' = "done"
    /\ UNCHANGED <<item, utData, utIndex, utId, utCount, pathVars, patchVars, queryVars, aggVars,
                 hydrateVars, pageVars, listVars, concVars>>

\* update_todo has returned or raised
UpdateReturn ==
    /\ utPc = "done"
    /\ utPc' = "idle"
    /\ utData' = <<>> /\ utIndex' = NONE /\ utId' = NONE
    /\ utOps' = <<>> /\ utAnswers' = <<>> /\ utError' = FALSE
    /\ UNCHANGED <<item, utCount, pathVars, patchVars, queryVars, aggVars, hydrateVars, pageVars,
                 listVars, concVars>>

UpdateNext ==
    UpdateCall \/ PreReadOk \/ PreReadFail \/ SubmitOk \/ SubmitFail \/ UpdateReturn

SpecUpdate == UpdateInit /\ [][UpdateNext]_vars

-----------------------------------------------------------------------------
(* query_todos *)

Sentinel == <<"__NO_EPIC__">>
Digits == {"0", "1", "2"}

\* str.isdigit()
IsDigit(s) == s # <<>> /\ \A i \in 1..Len(s) : s[i] \in Digits

\* [t.strip() for t in s.split(",") if t.strip()]
RECURSIVE NonEmpty(_)
NonEmpty(parts) ==
    IF parts = <<>> THEN <<>>
    ELSE (IF Head(parts) # <<>> THEN <<Head(parts)>> ELSE <<>>) \o NonEmpty(Tail(parts))

SplitStripped(s) ==
    LET parts == Split(s, COMMA)
    IN  NonEmpty([i \in 1..Len(parts) |-> Strip(parts[i])])

\* the clauses of a WHERE: a comparison of a field, or a disjunction of two
Cmp(field, op, value) == [field |-> field, op |-> op, value |-> value]
In(field, values) == [field |-> field, op |-> "IN", values |-> values]
Or(left, right) == [op |-> "OR", left |-> left, right |-> right]
Connective(word) == [connective |-> word]

ProjectClause == [field |-> "System.TeamProject", op |-> "=", macro |-> "@project"]
NotRemovedClause == Cmp("System.State", "<>", <<"Removed">>)
NotEpicClause == Cmp("System.WorkItemType", "<>", <<"Epic">>)

BaseClausesWithoutRemoved == <<ProjectClause>>

BaseClauses == <<ProjectClause, NotRemovedClause>>

\* exclude_epic, and work_item_type after the sentinel test
ExcludeEpic(args) == args.work_item_type = Sentinel
\* work_item_type with the sentinel left in it
TypeFilterKeepingSentinel(args) == args.work_item_type

TypeFilter(args) == IF ExcludeEpic(args) THEN <<>> ELSE args.work_item_type

TypeClauses(args) ==
    LET types == SplitStripped(TypeFilter(args))
    IN  (IF TypeFilter(args) # <<>> /\ types # <<>>
         THEN IF Len(types) = 1
              THEN <<Cmp("System.WorkItemType", "=", types[1])>>
              ELSE <<In("System.WorkItemType", types)>>
         ELSE <<>>)
        \o (IF ExcludeEpic(args) THEN <<NotEpicClause>> ELSE <<>>)

StateClauses(args) ==
    IF args.state = <<>> THEN <<>>
    ELSE IF \E i \in 1..Len(args.state) : args.state[i] = COMMA
    THEN LET states == SplitStripped(args.state)
         IN  IF states # <<>> THEN <<In("System.State", states)>> ELSE <<>>
    ELSE <<Cmp("System.State", "=", args.state)>>

AssignedClauses(args) ==
    IF args.assigned_to # <<>>
    THEN <<Cmp("System.AssignedTo", "CONTAINS", args.assigned_to)>>
    ELSE <<>>

KeywordClausesAnyDigit(args) ==
    IF args.keyword = <<>> THEN <<>>
    ELSE LET keyword_str == Strip(args.keyword)
         IN  IF \E i \in 1..Len(keyword_str) : keyword_str[i] \in Digits
             THEN <<Or(Cmp("System.Id", "=", keyword_str),
                       Cmp("System.Title", "CONTAINS", keyword_str))>>
             ELSE <<Cmp("System.Title", "CONTAINS", keyword_str)>>

KeywordClauses(args) ==
    IF args.keyword = <<>> THEN <<>>
    ELSE LET keyword_str == Strip(args.keyword)
         IN  IF IsDigit(keyword_str)
             THEN <<Or(Cmp("System.Id", "=", keyword_str),
                       Cmp("System.Title", "CONTAINS", keyword_str))>>
             ELSE <<Cmp("System.Title", "CONTAINS", keyword_str)>>

PlannedClauses(args) ==
    (IF args.planned_from # <<>>
     THEN <<Cmp("Microsoft.VSTS.Scheduling.StartDate", ">=", args.planned_from)>>
     ELSE <<>>)
    \o (IF args.planned_to # <<>>
        THEN <<Cmp("Microsoft.VSTS.Scheduling.StartDate", "<=", args.planned_to)>>
        ELSE <<>>)

\* `clauses` when the query is rendered
Clauses(args) ==
    BaseClauses \o TypeClauses(args) \o StateClauses(args) \o AssignedClauses(args)
    \o KeywordClauses(args) \o PlannedClauses(args)

\* " AND ".join(clauses)
Where(clauses) ==
    Join([i \in 1..Len(clauses) |-> <<clauses[i]>>], <<Connective("AND")>>)

\* wiql: the projection is fixed, the order is by ChangedDate descending
Wiql(args) ==
    [from |-> "WorkItems", where |-> Where(Clauses(args)),
     orderBy |-> "System.ChangedDate", direction |-> "DESC"]

Max(a, b) == IF a >= b THEN a ELSE b
Min(a, b) == IF a <= b THEN a ELSE b

\* page and page_size after the two clamps
ClampPage(page) == Max(page, 1)
\* page_size clamped from below only
ClampPageSizeWithoutCeiling(page_size) == Max(page_size, 1)

ClampPageSize(page_size) == Max(Min(page_size, 200), 1)

\* a bound of a Python slice of a list of n elements
SliceBound(i, n) == IF i < 0 THEN Max(i + n, 0) ELSE Min(i, n)

\* seq[lo:hi]
Slice(seq, lo, hi) == SubSeq(seq, SliceBound(lo, Len(seq)) + 1, SliceBound(hi, Len(seq)))

\* the ids the wiql endpoint answers with, in the order of the query
WorkItemIds == [i \in 1..NumWorkItems |-> NumWorkItems + 1 - i]

FailureStatuses == {400, 401, 500}

KeywordInputs == SeqsUpTo({"1", "a", BLANK}, MaxKeywordLen)
TypeElements == {<<BLANK>>, <<"Bug">>, Sentinel}
TypeInputs ==
    {<<>>} \cup {Join(l, <<COMMA>>) : l \in UNION {[1..k -> TypeElements] : k \in 1..MaxTypes}}
StateInputs == {<<>>, <<"Active">>, <<"Active", COMMA, BLANK, "Closed">>}
\* (page, page_size): the defaults, values under the clamps, a second page
PageInputs == {<<1, 20>>, <<0, 0>>, <<2, 2>>}

QueryInputs ==
    UNION {[state : StateInputs, keyword : KeywordInputs, assigned_to : {<<>>, <<"bob">>},
            work_item_type : TypeInputs, planned_from : {<<>>, <<"2024-01-01">>},
            planned_to : {<<>>, <<"2024-01-31">>}, page : {p[1]}, page_size : {p[2]}] :
           p \in PageInputs}

QueryInit ==
    /\ qInput \in QueryInputs
    /\ qArgs = qInput
    /\ qSent = <<>> /\ qAnswers = <<>> /\ qIds = <<>> /\ qResult = <<>> /\ qStatus = 0
    /\ qPc = "call"
    /\ PathOff /\ PatchOff /\ UpdateOff /\ AggOff /\ HydrateOff /\ PageOff /\ ListOff /\ ConcOff

\* a call of query_todos up to its POST: the clamps, the clauses, the query
QueryCompile ==
    /\ qPc = "call"
    /\ qArgs' = [qArgs EXCEPT !.page = ClampPage(qArgs.page),
                              !.page_size = ClampPageSize(qArgs.page_size)]
    /\ qSent' = Append(qSent, Wiql(qArgs))
    /\ qPc' = "wiql"
    /\ UNCHANGED <<qInput, qAnswers, qIds, qResult, qStatus, pathVars, patchVars,
                   updateVars, aggVars, hydrateVars, pageVars, listVars, concVars>>

\* the wiql endpoint answers: the ids are windowed; no id, nothing to hydrate
WiqlOk ==
    /\ qPc = "wiql"
    /\ \E n \in {0, NumWorkItems} :
          LET work_items == SubSeq(WorkItemIds, 1, n)
              skip == (qArgs.page - 1) * qArgs.page_size
              ids == Slice(work_items, skip, skip + qArgs.page_size)
          IN  /\ qIds' = ids
              /\ qPc' = IF ids = <<>> THEN "returned" ELSE "hydrate"
    /\ qAnswers' = Append(qAnswers, 200)
    /\ qResult' = <<>>
    /\ UNCHANGED <<qInput, qArgs, qSent, qStatus, pathVars, patchVars, updateVars, aggVars,
                 hydrateVars, pageVars, listVars, concVars>>

\* the wiql endpoint rejects a query that has a type filter with 400:
\* query_todos calls itself without the type filter (and without the planned dates)
WiqlRetry ==
    /\ qPc = "wiql"
    /\ TypeFilter(qArgs) # <<>>
    /\ qArgs' = [qArgs EXCEPT !.work_item_type = <<>>,
                              !.planned_from = <<>>, !.planned_to = <<>>]
    /\ qAnswers' = Append(qAnswers, 400)
    /\ qPc' = "call"
    /\ UNCHANGED <<qInput, qSent, qIds, qResult, qStatus, pathVars, patchVars, updateVars, aggVars,
                 hydrateVars, pageVars, listVars, concVars>>

\* any other failure of the wiql endpoint: logged, and [] is returned
WiqlFail ==
    /\ qPc = "wiql"
    /\ \E status \in FailureStatuses :
          /\ ~(status = 400 /\ TypeFilter(qArgs) # <<>>)
          /\ qAnswers' = Append(qAnswers, status)
    /\ qResult' = <<>>
    /\ qPc' = "returned"
    /\ UNCHANGED <<qInput, qArgs, qSent, qIds, qStatus, pathVars, patchVars, updateVars, aggVars,
                 hydrateVars, pageVars, listVars, concVars>>

\* the hydration call answers: the mapped items, sorted by changedDate descending
HydrateOk ==
    /\ qPc = "hydrate"
    /\ qResult' = qIds
    /\ qPc' = "returned"
    /\ UNCHANGED <<qInput, qArgs, qSent, qAnswers, qIds, qStatus, pathVars, patchVars,
                   updateVars, aggVars, hydrateVars, pageVars, listVars, concVars>>

\* the hydration call fails: _request raises and query_todos lets it through
HydrateFail ==
    /\ qPc = "hydrate"
    /\ \E status \in FailureStatuses : qStatus' = status
    /\ qPc' = "raised"
    /\ UNCHANGED <<qInput, qArgs, qSent, qAnswers, qIds, qResult, pathVars, patchVars,
                   updateVars, aggVars, hydrateVars, pageVars, listVars, concVars>>

QueryNext ==
    QueryCompile \/ WiqlOk \/ WiqlRetry \/ WiqlFail \/ HydrateOk \/ HydrateFail

SpecQuery == QueryInit /\ [][QueryNext]_vars

-----------------------------------------------------------------------------
(* list_all_todos *)

WorkerCap == 8

Projects == 1..NumProjects

\* x.get("changedDate") or "": the dates of one month compare as their days,
\* and "" sorts below every date
SortKey(x) == IF x.changedDate = NONE THEN 0 ELSE x.changedDate.val

\* list.sort(key=..., reverse=True): descending, equal keys keep their order
InsertDesc(sorted, x) ==
    LET before == {i \in 1..Len(sorted) : SortKey(sorted[i]) >= SortKey(x)}
        n == IF before = {} THEN 0 ELSE CHOOSE i \in before : \A j \in before : j <= i
    IN  SubSeq(sorted, 1, n) \o <<x>> \o SubSeq(sorted, n + 1, Len(sorted))

RECURSIVE SortDescFrom(_, _)
SortDescFrom(sorted, rest) ==
    IF rest = <<>> THEN sorted ELSE SortDescFrom(InsertDesc(sorted, Head(rest)), Tail(rest))

SortDesc(seq) == SortDescFrom(<<>>, seq)

\* the changedDate lists a project's query can match, newest first
MatchingDates ==
    {<<>>, <<Num(1)>>, <<Num(2)>>, <<Num(3)>>, <<NONE>>, <<Num(3), Num(2)>>}

\* the items of project p, given the changedDates of its matches
ItemsOf(p, dates) ==
    [i \in 1..Len(dates) |-> [id |-> 10 * p + i, changedDate |-> dates[i]]]

\* (page, page_size) of the request
AggPageInputs == {<<1, 1>>, <<1, 2>>, <<2, 1>>}

\* how a fetch can end: query_todos returns, or raises one of these
FetchOutcomes == {"ok", "AzureDevOpsError", "AzureDevOpsAuthError", "Exception"}

\* query_todos(proj_id, ..., page=1, page_size=page_size) when nothing fails
FirstPage(matching, page_size) == Slice(matching, 0, ClampPageSize(page_size))

\* fetch_proj without its handler of Exception
FetchProjUncaught(p, matching, page_size, outcome) ==
    IF outcome = "ok"
    THEN [items |-> [i \in 1..Len(FirstPage(matching, page_size)) |->
                        [id |-> FirstPage(matching, page_size)[i].id,
                         changedDate |-> FirstPage(matching, page_size)[i].changedDate,
                         projectId |-> p]],
          raised |-> FALSE]
    ELSE [items |-> <<>>, raised |-> outcome = "Exception"]

\* fetch_proj: the items stamped with the project, or [] when the query raised
FetchProj(p, matching, page_size, outcome) ==
    IF outcome = "ok"
    THEN [items |-> [i \in 1..Len(FirstPage(matching, page_size)) |->
                        [id |-> FirstPage(matching, page_size)[i].id,
                         changedDate |-> FirstPage(matching, page_size)[i].changedDate,
                         projectId |-> p]],
          raised |-> FALSE]
    ELSE [items |-> <<>>, raised |-> FALSE]

\* max_workers
MaxWorkers == Min(WorkerCap, Max(NumProjects, 1))

\* a submitted fetch runs once fewer than max_workers earlier ones are unfinished
Running(p) ==
    /\ aggStatus[p] = "pending"
    /\ Cardinality({q \in Projects : q < p /\ aggStatus[q] = "pending"}) < MaxWorkers

\* the sort, the window and hasMore
Respond(merged, page, page_size) ==
    LET sorted == SortDesc(merged)
        start == (page - 1) * page_size
        end == start + page_size
    IN  [todos |-> Slice(sorted, start, end), hasMore |-> end < Len(sorted), error |-> FALSE]

AggInit ==
    /\ \E dates \in [Projects -> MatchingDates] :
          aggMatching = [p \in Projects |-> ItemsOf(p, dates[p])]
    /\ \E pg \in AggPageInputs : aggPage = pg[1] /\ aggPageSize = pg[2]
    /\ aggStatus = [p \in Projects |-> "pending"]
    /\ aggOrder = <<>> /\ aggregated = <<>> /\ aggResponse = NoResponse
    /\ aggPc = "fetching"
    /\ PathOff /\ PatchOff /\ UpdateOff /\ QueryOff /\ HydrateOff /\ PageOff /\ ListOff /\ ConcOff

\* one future completes and as_completed yields it: aggregated.extend(result)
FetchComplete ==
    /\ aggPc = "fetching"
    /\ \E p \in Projects, outcome \in FetchOutcomes :
          LET r == FetchProj(p, aggMatching[p], aggPageSize, outcome)
          IN  /\ Running(p)
              /\ outcome # "ok" =>
                    Cardinality({q \in Projects : aggStatus[q] = "failed"}) < MaxFailures
              /\ aggStatus' = [aggStatus EXCEPT ![p] = IF outcome = "ok" THEN "ok" ELSE "failed"]
              /\ aggOrder' = Append(aggOrder, p)
              /\ IF r.raised
                 THEN /\ aggResponse' = [NoResponse EXCEPT !.error = TRUE]
                      /\ aggPc' = "done"
                      /\ UNCHANGED aggregated
                 ELSE /\ aggregated' = aggregated \o r.items
                      /\ UNCHANGED <<aggResponse, aggPc>>
    /\ UNCHANGED <<aggMatching, aggPage, aggPageSize, pathVars, patchVars, updateVars, queryVars,
                 hydrateVars, pageVars, listVars, concVars>>

\* every future has been yielded: sort, slice, respond
AggRespond ==
    /\ aggPc = "fetching"
    /\ \A p \in Projects : aggStatus[p] # "pending"
    /\ aggResponse' = Respond(aggregated, aggPage, aggPageSize)
    /\ aggPc' = "done"
    /\ UNCHANGED <<aggMatching, aggPage, aggPageSize, aggStatus, aggOrder, aggregated,
                   pathVars, patchVars, updateVars, queryVars, hydrateVars, pageVars, listVars,
                 concVars>>

AggNext == FetchComplete \/ AggRespond

SpecAgg == AggInit /\ [][AggNext]_vars

-----------------------------------------------------------------------------
(* list_descendants: the hydration of the ids in chunks *)

\* the lists of a list of lists, one after the other
RECURSIVE Flatten(_)
Flatten(lists) == IF lists = <<>> THEN <<>> ELSE Head(lists) \o Flatten(Tail(lists))

RECURSIVE Sum(_)
Sum(numbers) == IF numbers = <<>> THEN 0 ELSE Head(numbers) + Sum(Tail(numbers))

\* the size every caller passes to _chunk
ChunkSize == 200

\* range(0, len(items), size) has this many elements
RangeLen(len, size) == (len + size - 1) \div size

\* _chunk with slices that run one element into the next chunk
_chunkOverlapping(items, size) ==
    [k \in 1..RangeLen(Len(items), size) |->
        SubSeq(items, (k - 1) * size + 1, Min(k * size + 1, Len(items)))]

_chunk(items, size) ==
    [k \in 1..RangeLen(Len(items), size) |->
        SubSeq(items, (k - 1) * size + 1, Min(k * size, Len(items)))]

\* the ids the recursive link query answers, as list_descendants collects them
DescendantIds(n) == [i \in 1..n |-> i]

\* what the backend answers a hydration call with: a record for every id, or
\* for every id but the first
HydrateAnswers(chunk_ids) == {chunk_ids, Tail(chunk_ids)}

HydrateInit ==
    /\ hdIds = <<>> /\ hdSent = <<>> /\ hdReturned = <<>> /\ hdResults = <<>>
    /\ hdPc = "call"
    /\ PathOff /\ PatchOff /\ UpdateOff /\ QueryOff /\ AggOff /\ PageOff /\ ListOff /\ ConcOff

\* the link query answers: ids is built, an empty ids returns at once
DescendantsQuery ==
    /\ hdPc = "call"
    /\ \E n \in 0..MaxIds :
          /\ hdIds' = DescendantIds(n)
          /\ hdPc' = IF n = 0 THEN "returned" ELSE "hydrate"
    /\ UNCHANGED <<hdSent, hdReturned, hdResults, pathVars, patchVars, updateVars, queryVars, aggVars,
                 pageVars, listVars, concVars>>

\* one turn of the loop over _chunk(ids, 200): the call answers
HydrateChunkOk ==
    /\ hdPc = "hydrate"
    /\ LET chunks == _chunk(hdIds, ChunkSize)
           chunk_ids == chunks[Len(hdSent) + 1]
       IN  /\ hdSent' = Append(hdSent, chunk_ids)
           /\ \E value \in HydrateAnswers(chunk_ids) :
                 /\ hdReturned' = Append(hdReturned, Len(value))
                 /\ hdResults' = hdResults \o value
           /\ hdPc' = IF Len(hdSent) + 1 = Len(chunks) THEN "returned" ELSE "hydrate"
    /\ UNCHANGED <<hdIds, pathVars, patchVars, updateVars, queryVars, aggVars, pageVars, listVars,
                 concVars>>

\* one turn of the loop: the call fails and _request raises
HydrateChunkFail ==
    /\ hdPc = "hydrate"
    /\ hdSent' = Append(hdSent, _chunk(hdIds, ChunkSize)[Len(hdSent) + 1])
    /\ hdPc' = "raised"
    /\ UNCHANGED <<hdIds, hdReturned, hdResults, pathVars, patchVars, updateVars, queryVars, aggVars,
                 pageVars, listVars, concVars>>

HydrateNext == DescendantsQuery \/ HydrateChunkOk \/ HydrateChunkFail

SpecHydrate == HydrateInit /\ [][HydrateNext]_vars

-----------------------------------------------------------------------------
(* query_todos: the page cut out of the ids of the query *)

\* the numbers of ids the query answers with
PageCounts == {0, 3, MaxIds}

PageInit ==
    /\ pgPage \in -1..MaxPage
    /\ pgPageSize \in -1..MaxPageSize
    /\ \E n \in PageCounts : pgWorkItems = DescendantIds(n)
    /\ pgUsed = <<pgPage, pgPageSize>>
    /\ pgIds = <<>> /\ pgResult = <<>>
    /\ pgPc = "call"
    /\ PathOff /\ PatchOff /\ UpdateOff /\ QueryOff /\ AggOff /\ HydrateOff /\ ListOff /\ ConcOff

\* the clamps, the query and the window; no id, nothing to hydrate
Paginate ==
    /\ pgPc = "call"
    /\ LET page == ClampPage(pgPage)
           page_size == ClampPageSize(pgPageSize)
           skip == (page - 1) * page_size
           ids == Slice(pgWorkItems, skip, skip + page_size)
       IN  /\ pgUsed' = <<page, page_size>>
           /\ pgIds' = ids
           /\ pgPc' = IF ids = <<>> THEN "returned" ELSE "hydrate"
    /\ UNCHANGED <<pgPage, pgPageSize, pgWorkItems, pgResult, pathVars, patchVars, updateVars,
                   queryVars, aggVars, hydrateVars, listVars, concVars>>

\* the hydration of the window answers, at most 200 ids being one chunk
PageHydrate ==
    /\ pgPc = "hydrate"
    /\ pgResult' \in HydrateAnswers(Flatten(_chunk(pgIds, ChunkSize)))
    /\ pgPc' = "returned"
    /\ UNCHANGED <<pgPage, pgPageSize, pgWorkItems, pgUsed, pgIds, pathVars, patchVars, updateVars,
                   queryVars, aggVars, hydrateVars, listVars, concVars>>

PageNext == Paginate \/ PageHydrate

SpecPage == PageInit /\ [][PageNext]_vars

-----------------------------------------------------------------------------
(* list_tags, list_area_paths, list_iteration_paths *)

\* the code point of the first character of a token; the tokens used here
\* begin with different characters, so a comparison of two strings is decided
\* at the first token they differ in
Ord(t) ==
    CASE t = BLANK -> 32
      [] t = "Area" -> 65
      [] t = "Beta" -> 66
      [] t = "Proj" -> 80
      [] t = "Zeta" -> 90
      [] t = BACKSLASH -> 92
      [] t = "a" -> 97
      [] t = "b" -> 98

\* a < b for str
RECURSIVE StrLess(_, _)
StrLess(a, b) ==
    IF b = <<>> THEN FALSE
    ELSE IF a = <<>> THEN TRUE
    ELSE IF Head(a) = Head(b) THEN StrLess(Tail(a), Tail(b))
    ELSE Ord(Head(a)) < Ord(Head(b))

\* sorted(set(strings))
RECURSIVE SortedSet(_)
SortedSet(strings) ==
    IF strings = {} THEN <<>>
    ELSE LET least == CHOOSE x \in strings : \A y \in strings \ {x} : StrLess(x, y)
         IN  <<least>> \o SortedSet(strings \ {least})

\* the names of a page of tags, the empty ones left out
TagNames(page) == NonEmpty(page)

RECURSIVE _flatten_classification_nodes(_, _)
RECURSIVE FlattenChildren(_, _)
_flatten_classification_nodes(node, base_path) ==
    LET raw == IF node.path # <<>> THEN node.path
               ELSE IF base_path # <<>> THEN base_path \o <<BACKSLASH>> \o node.name
               ELSE node.name
        current_path == IF raw # <<>> THEN _normalize_tree_path(raw) ELSE raw
    IN  (IF current_path # <<>> THEN <<current_path>> ELSE <<>>)
        \o FlattenChildren(node.children, current_path)

\* the loop over the children of a node
FlattenChildren(children, current_path) ==
    IF children = <<>> THEN <<>>
    ELSE _flatten_classification_nodes(Head(children), current_path)
         \o FlattenChildren(Tail(children), current_path)

Node(path, name, children) == [path |-> path, name |-> name, children |-> children]

\* the nodes under the root: with a path or with a name only, one with a child
ChildNodes ==
    {Node(<<BACKSLASH, "Proj", BACKSLASH, "Area", BACKSLASH, "Zeta">>, <<"Zeta">>, <<>>),
     Node(<<BACKSLASH, "Proj", BACKSLASH, "Area", BACKSLASH, "Beta">>, <<"Beta">>, <<>>),
     Node(<<>>, <<"Area">>, <<>>),
     Node(<<>>, <<"Beta">>, <<Node(<<>>, <<"Zeta">>, <<>>)>>)}

ClassificationTrees ==
    {Node(path, <<"Proj">>, children) :
        path \in {<<>>, <<BACKSLASH, "Proj", BACKSLASH, "Area">>},
        children \in SeqsUpTo(ChildNodes, MaxChildren)}

TagPages == SeqsUpTo({<<>>, <<"a">>, <<"b">>}, MaxPageTags)

ListInit ==
    /\ lsTagPages = <<>> /\ lsTree = NoNode
    /\ lsCall = "none" /\ lsFetched = 0 /\ lsTags = <<>> /\ lsResult = <<>>
    /\ lsPc = "idle"
    /\ PathOff /\ PatchOff /\ UpdateOff /\ QueryOff /\ AggOff /\ HydrateOff /\ PageOff /\ ConcOff

\* list_tags is called; the tags endpoint has one page or more to answer with
ListTagsCall ==
    /\ lsPc = "idle"
    /\ lsCall' = "list_tags"
    /\ lsTagPages' \in SeqsUpTo(TagPages, MaxTagPages) \ {<<>>}
    /\ lsFetched' = 0
    /\ lsTags' = <<>>
    /\ lsPc' = "tags"
    /\ UNCHANGED <<lsTree, lsResult, pathVars, patchVars, updateVars, queryVars,
                   aggVars, hydrateVars, pageVars, concVars>>

\* one turn of the loop of list_tags: a page is read; with no continuation
\* token the loop ends and the tags are returned
ListTagsPage ==
    /\ lsPc = "tags"
    /\ LET tags == lsTags \o TagNames(lsTagPages[lsFetched + 1])
       IN  /\ lsTags' = tags
           /\ lsFetched' = lsFetched + 1
           /\ IF lsFetched + 1 < Len(lsTagPages)
              THEN /\ lsResult' = lsResult
                   /\ lsPc' = "tags"
              ELSE /\ lsResult' = SortedSet({tags[i] : i \in 1..Len(tags)})
                   /\ lsPc' = "returned"
    /\ UNCHANGED <<lsTagPages, lsTree, lsCall, pathVars, patchVars, updateVars, queryVars,
                   aggVars, hydrateVars, pageVars, concVars>>

ListAreaPaths ==
    /\ lsPc = "idle"
    /\ lsCall' = "list_area_paths"
    /\ \E resp \in ClassificationTrees :
          /\ lsTree' = resp
          /\ lsResult' = _flatten_classification_nodes(resp, <<>>)
    /\ lsPc' = "returned"
    /\ UNCHANGED <<lsTagPages, lsFetched, lsTags, pathVars, patchVars, updateVars, queryVars,
                   aggVars, hydrateVars, pageVars, concVars>>

ListIterationPaths ==
    /\ lsPc = "idle"
    /\ lsCall' = "list_iteration_paths"
    /\ \E resp \in ClassificationTrees :
          /\ lsTree' = resp
          /\ lsResult' = _flatten_classification_nodes(resp, <<>>)
    /\ lsPc' = "returned"
    /\ UNCHANGED <<lsTagPages, lsFetched, lsTags, pathVars, patchVars, updateVars, queryVars,
                   aggVars, hydrateVars, pageVars, concVars>>

ListNext == ListTagsCall \/ ListTagsPage \/ ListAreaPaths \/ ListIterationPaths

SpecList == ListInit /\ [][ListNext]_vars

-----------------------------------------------------------------------------
(* update_todo: several callers on one work item *)

\* the relation lists the work item starts with: at most one parent
ConcRelations ==
    {<<>>, <<ParentRelation(1)>>, <<Related, ParentRelation(1)>>, <<ParentRelation(1), Related>>}

\* the payloads of the callers
ConcPayloads ==
    {[parentId |-> NONE], [parentId |-> Num(1)], [parentId |-> Num(2)],
     [title |-> Str(<<"T">>)], [title |-> Str(<<"T">>), parentId |-> Num(2)]}

ConcInit ==
    /\ ccItem \in [state : {<<"Active">>}, originalEstimate : {NONE}, remaining : {NONE},
                   relations : ConcRelations]
    /\ ccData = [c \in Callers |-> <<>>]
    /\ ccIndex = [c \in Callers |-> NONE]
    /\ ccId = [c \in Callers |-> NONE]
    /\ ccRead = [c \in Callers |-> NONE]
    /\ ccRemovals = <<>>
    /\ ccPc = [c \in Callers |-> "idle"]
    /\ PathOff /\ PatchOff /\ UpdateOff /\ QueryOff /\ AggOff /\ HydrateOff /\ PageOff /\ ListOff

\* a caller calls update_todo: its locals are initialised
ConcCall(c) ==
    /\ ccPc[c] = "idle"
    /\ \E data \in ConcPayloads :
          /\ ccData' = [ccData EXCEPT ![c] = data]
          /\ ccPc' = [ccPc EXCEPT ![c] = IF "parentId" \in DOMAIN data THEN "preread"
                                         ELSE "submit"]
    /\ UNCHANGED <<ccItem, ccIndex, ccId, ccRead, ccRemovals, pathVars, patchVars, updateVars,
                   queryVars, aggVars, hydrateVars, pageVars, listVars>>

\* the relation-expanded GET of a caller answers with the relations of that moment
ConcPreReadOk(c) ==
    /\ ccPc[c] = "preread"
    /\ ccIndex' = [ccIndex EXCEPT ![c] = ScanIndex(ccItem.relations)]
    /\ ccId' = [ccId EXCEPT ![c] = ScanId(ccItem.relations)]
    /\ ccRead' = [ccRead EXCEPT ![c] =
                    IF ScanIndex(ccItem.relations) = NONE THEN NONE
                    ELSE ccItem.relations[ScanIndex(ccItem.relations).val + 1]]
    /\ ccPc' = [ccPc EXCEPT ![c] = "submit"]
    /\ UNCHANGED <<ccItem, ccData, ccRemovals, pathVars, patchVars, updateVars, queryVars,
                   aggVars, hydrateVars, pageVars, listVars>>

\* the relation-expanded GET of a caller raises: the exception is swallowed
ConcPreReadFail(c) ==
    /\ ccPc[c] = "preread"
    /\ ccIndex' = [ccIndex EXCEPT ![c] = NONE]
    /\ ccId' = [ccId EXCEPT ![c] = NONE]
    /\ ccRead' = [ccRead EXCEPT ![c] = NONE]
    /\ ccPc' = [ccPc EXCEPT ![c] = "submit"]
    /\ UNCHANGED <<ccItem, ccData, ccRemovals, pathVars, patchVars, updateVars, queryVars,
                   aggVars, hydrateVars, pageVars, listVars>>

ConcBody(c) ==
    _build_patch_body(ccData[c], <<"Proj">>, ccIndex[c], ccId[c], LookupFailed, LookupFailed)

\* the removals of a patch document as the backend applies them to the item:
\* who submitted, the relation removed, the relation the submitter had read
RECURSIVE RemovalsOf(_, _, _)
RemovalsOf(c, it, ops) ==
    IF ops = <<>> THEN <<>>
    ELSE (IF Head(ops).op = "remove"
          THEN <<[by |-> c, removed |-> it.relations[Head(ops).index + 1], read |-> ccRead[c]]>>
          ELSE <<>>)
         \o RemovalsOf(c, ApplyOp(it, Head(ops)), Tail(ops))

\* the PATCH of a caller is accepted: the backend applies the whole document
ConcSubmitOk(c) ==
    /\ ccPc[c] = "submit"
    /\ Applicable(ccItem, ConcBody(c))
    /\ ccItem' = ApplyPatch(ccItem, ConcBody(c))
    /\ ccRemovals' = ccRemovals \o RemovalsOf(c, ccItem, ConcBody(c))
    /\ ccPc' = [ccPc EXCEPT ![c] = "done"]
    /\ UNCHANGED <<ccData, ccIndex, ccId, ccRead, pathVars, patchVars, updateVars, queryVars,
                   aggVars, hydrateVars, pageVars, listVars>>

\* the PATCH of a caller is rejected: update_todo raises
ConcSubmitFail(c) ==
    /\ ccPc[c] = "submit"
    /\ ccPc' = [ccPc EXCEPT ![c] = "done"]
    /\ UNCHANGED <<ccItem, ccData, ccIndex, ccId, ccRead, ccRemovals, pathVars, patchVars,
                   updateVars, queryVars, aggVars, hydrateVars, pageVars, listVars>>

ConcNext ==
    \E c \in Callers :
        \/ ConcCall(c)
        \/ ConcPreReadOk(c)
        \/ ConcPreReadFail(c)
        \/ ConcSubmitOk(c)
        \/ ConcSubmitFail(c)

SpecConc == ConcInit /\ [][ConcNext]_vars

-----------------------------------------------------------------------------
(* Claims about _normalize_tree_path and _build_patch_body *)

\* the values of an operation list's operations on one path
ValuesOn(ops, path) == {ops[i].value : i \in OpsOn(ops, path)}

\* C6: _normalize_tree_path is idempotent: normalizing a normalized path
\* returns it unchanged, for every path.
C6_NormalizeIdempotent == npPc = "renormalized" => npOut2 = npOut

\* C7: normalizing "\Area\Backend" yields "Backend", and for the path "Area"
\* the patch builder emits no areaPath / iterationPath operation.
C7_NormalizeExamples ==
    /\ (npPc # "input" /\ npPath = <<BACKSLASH, "Area", BACKSLASH, "Backend">>)
            => npOut = <<"Backend">>
    /\ (npPc = "patched" /\ npPath = <<"Area">>) => npOps = <<>>

\* the spellings of a closed or resolved state among the inputs
ClosedSpellings == {Str(<<"Closed">>), Str(<<"CLOSED">>), Str(<<"Resolved">>)}

\* C8: originalEstimate = v (non-null) with remaining absent or null: when the
\* state of the update is absent or not closed/resolved, the patch sets both
\* OriginalEstimate and RemainingWork to v; when it is closed/resolved, the
\* patch sets OriginalEstimate and has no RemainingWork operation.
C8_EstimateMirror ==
    (/\ bpPc = "built"
     /\ Get(bpData, "originalEstimate") # NONE
     /\ Get(bpData, "remaining") = NONE)
    => /\ ValuesOn(bpOps, OriginalEstimatePath) = {bpData["originalEstimate"]}
       /\ IF Get(bpData, "state") \in ClosedSpellings
          THEN OpsOn(bpOps, RemainingWorkPath) = {}
          ELSE ValuesOn(bpOps, RemainingWorkPath) = {bpData["originalEstimate"]}

C8_Witness ==
    /\ bpPc = "built"
    /\ DOMAIN bpData = {"originalEstimate", "state"}
    /\ bpData["originalEstimate"] = Num(8)
    /\ bpData["state"] = Str(<<"Active">>)
    /\ \E i \in OpsOn(bpOps, RemainingWorkPath) : bpOps[i].value = Num(8)

\* C10: remaining = v (non-null) with originalEstimate absent or null: the
\* patch sets both RemainingWork and OriginalEstimate to v, whatever the
\* state; with both supplied non-null, each field is set once, to its own
\* value.
C10_RemainingMirror ==
    /\ (/\ bpPc = "built"
        /\ Get(bpData, "remaining") # NONE
        /\ Get(bpData, "originalEstimate") = NONE)
       => /\ ValuesOn(bpOps, RemainingWorkPath) = {bpData["remaining"]}
          /\ ValuesOn(bpOps, OriginalEstimatePath) = {bpData["remaining"]}
    /\ (/\ bpPc = "built"
        /\ Get(bpData, "remaining") # NONE
        /\ Get(bpData, "originalEstimate") # NONE)
       => /\ Cardinality(OpsOn(bpOps, RemainingWorkPath)) = 1
          /\ Cardinality(OpsOn(bpOps, OriginalEstimatePath)) = 1
          /\ ValuesOn(bpOps, RemainingWorkPath) = {bpData["remaining"]}
          /\ ValuesOn(bpOps, OriginalEstimatePath) = {bpData["originalEstimate"]}

C10_Witness ==
    /\ bpPc = "built"
    /\ DOMAIN bpData = {"remaining", "state"}
    /\ bpData["remaining"] = Num(5)
    /\ bpData["state"] = Str(<<"Closed">>)
    /\ \E i \in OpsOn(bpOps, OriginalEstimatePath) : bpOps[i].value = Num(5)

\* C9: the closed-state exception looks at the effective state: an update
\* that touches originalEstimate but neither remaining nor state, on an item
\* whose current state is closed or resolved, emits no RemainingWork operation.
C9_EffectiveStateMirror ==
    (/\ utPc = "done"
     /\ Get(utData, "originalEstimate") # NONE
     /\ "remaining" \notin DOMAIN utData
     /\ "state" \notin DOMAIN utData
     /\ Lower(item.state) \in ClosedStates)
    => OpsOn(utOps, RemainingWorkPath) = {}

-----------------------------------------------------------------------------
(* Claims about query_todos *)

\* the clauses of a rendered WHERE, without the connectives between them
ClausesOf(where) == {where[i] : i \in {j \in 1..Len(where) : j % 2 = 1}}

\* the comparisons a clause is made of
Comparisons(clause) ==
    IF clause.op = "OR" THEN {clause.left, clause.right} ELSE {clause}

\* C3: whatever filters are given, every query sent, the retry's included,
\* has the clause excluding the state 'Removed', and its clauses are joined
\* with AND.
C3_RemovedExcludedAndJoined ==
    \A k \in 1..Len(qSent) :
        LET where == qSent[k].where
        IN  /\ NotRemovedClause \in ClausesOf(where)
            /\ Len(where) % 2 = 1
            /\ \A i \in 1..Len(where) :
                  IF i % 2 = 0
                  THEN where[i] = Connective("AND")
                  ELSE "connective" \notin DOMAIN where[i]

C3_Witness ==
    /\ Len(qSent) = 2
    /\ qInput.state # <<>> /\ qInput.keyword # <<>> /\ qInput.assigned_to # <<>>
    /\ qInput.planned_from # <<>> /\ qInput.planned_to # <<>>
    /\ Len(qSent[1].where) > Len(qSent[2].where)

\* whether a clause compares the work item type with the sentinel's text
NamesSentinel(clause) ==
    /\ clause.op \in {"=", "IN"}
    /\ clause.field = "System.WorkItemType"
    /\ IF clause.op = "IN"
       THEN \E i \in 1..Len(clause.values) : clause.values[i] = Sentinel
       ELSE clause.value = Sentinel

\* C4: a type filter that contains the sentinel, alone or as an element of a
\* comma-separated list, never puts the sentinel's text in a type clause and
\* always yields the clause WorkItemType <> 'Epic'.
C4_SentinelBecomesNotEpic ==
    (/\ Len(qSent) >= 1
     /\ \E i \in 1..Len(qInput.work_item_type) : qInput.work_item_type[i] = Sentinel[1])
    => /\ \A c \in ClausesOf(qSent[1].where) : ~NamesSentinel(c)
       /\ NotEpicClause \in ClausesOf(qSent[1].where)

\* the clauses of a query that mention the keyword's field or the id
KeywordComparisons(where) ==
    {c \in ClausesOf(where) :
        \E x \in Comparisons(c) : x.field \in {"System.Id", "System.Title"}}

\* C5: a keyword that, trimmed, is all digits gives exactly one keyword
\* clause, Id = keyword OR Title CONTAINS keyword; any other non-empty
\* keyword gives the Title CONTAINS clause alone and no comparison of the id.
C5_KeywordClause ==
    (Len(qSent) >= 1 /\ qInput.keyword # <<>>)
    => LET kw == Strip(qInput.keyword)
           digits == kw # <<>> /\ \A i \in 1..Len(kw) : kw[i] \in {"0", "1", "2"}
       IN  \A k \in 1..Len(qSent) :
               KeywordComparisons(qSent[k].where) =
                   IF digits
                   THEN {Or(Cmp("System.Id", "=", kw), Cmp("System.Title", "CONTAINS", kw))}
                   ELSE {Cmp("System.Title", "CONTAINS", kw)}

C5_Witness ==
    /\ Len(qSent) >= 1
    /\ qInput.keyword = <<BLANK, "1">>
    /\ Or(Cmp("System.Id", "=", <<"1">>), Cmp("System.Title", "CONTAINS", <<"1">>))
           \in ClausesOf(qSent[1].where)

-----------------------------------------------------------------------------
(* Claims about list_all_todos *)

\* the merge of the first pages of the projects of `order`, all fetched well
RECURSIVE MergeOf(_)
MergeOf(order) ==
    IF order = <<>> THEN <<>>
    ELSE FetchProj(Head(order), aggMatching[Head(order)], aggPageSize, "ok").items
         \o MergeOf(Tail(order))

Succeeded(p) == aggStatus[p] = "ok"

\* the projects in the order they were submitted
SubmissionOrder == [p \in 1..NumProjects |-> p]

\* C1: for fixed per-project results, the returned items are the same under
\* every order in which the fetches complete, ties and missing changedDates
\* included: every completion order returns what the submission order returns.
C1_CompletionOrderIndependent ==
    (aggPc = "done" /\ ~aggResponse.error)
    => aggResponse.todos =
           Respond(MergeOf(SelectSeq(SubmissionOrder, Succeeded)), aggPage, aggPageSize).todos

\* C2: a project whose fetch raises contributes nothing and no error reaches
\* the caller: the items and hasMore are those of aggregating the other
\* projects alone (completing in the same order).
C2_FailedProjectContributesNothing ==
    aggPc = "done"
    => aggResponse = Respond(MergeOf(SelectSeq(aggOrder, Succeeded)), aggPage, aggPageSize)

C2_Witness ==
    /\ aggPc = "done"
    /\ Cardinality({p \in Projects : aggStatus[p] = "failed"}) = 1
    /\ \A p \in Projects : aggMatching[p] # <<>>
    /\ aggResponse.todos # <<>>
    /\ ~aggResponse.error

-----------------------------------------------------------------------------
(* Parent relation *)

\* the positions of the relation operations of a patch
RelationOps(ops) == {i \in 1..Len(ops) : ops[i].path \in {"/relations", "/relations/-"}}

\* update_todo sets parentId to the id the pre-read found as the current parent
SameParent ==
    /\ "parentId" \in DOMAIN utData
    /\ utId # NONE
    /\ utId = IntOrNone(utData["parentId"])

\* C11: when update_todo sets parentId to the id the pre-read found as the
\* current parent, the submitted patch has no relation operation, neither a
\* removal nor an addition, and the relations of the work item stay as they are
C11_ParentDiffIdempotent ==
    [][(utPc = "submit" /\ utPc' = "done" /\ SameParent)
            => /\ RelationOps(utOps') = {}
               /\ item'.relations = item.relations]_vars

\* the second update in a row sets the parent the item already has and is accepted
C11_Witness ==
    /\ utPc = "done" /\ ~utError /\ utCount = 2
    /\ SameParent
    /\ ParentPositions(item.relations) # {}

-----------------------------------------------------------------------------
(* Hydration in chunks *)

\* C12: a completed hydration of n ids has issued ceil(n/200) calls, each of at
\* most 200 ids and every one but the last of exactly 200, the calls taken
\* together carry every id exactly once, and as many records are returned as
\* the backend returned over the calls
C12_ChunkedHydration ==
    hdPc = "returned" =>
        LET n == Len(hdIds)
            calls == Len(hdSent)
        IN  /\ (calls - 1) * ChunkSize < n /\ n <= calls * ChunkSize
            /\ \A k \in 1..calls : Len(hdSent[k]) <= ChunkSize
            /\ \A k \in 1..(calls - 1) : Len(hdSent[k]) = ChunkSize
            /\ Flatten(hdSent) = hdIds
            /\ Cardinality({hdIds[i] : i \in 1..n}) = n
            /\ Len(hdReturned) = calls
            /\ Len(hdResults) = Sum(hdReturned)

\* 450 ids were hydrated by calls of 200, 200 and 50 ids
C12_Witness ==
    /\ hdPc = "returned"
    /\ Len(hdIds) = 450
    /\ Len(hdSent) = 3
    /\ Len(hdSent[1]) = 200 /\ Len(hdSent[2]) = 200 /\ Len(hdSent[3]) = 50
    /\ Len(hdResults) = 449

-----------------------------------------------------------------------------
(* The retry and the failures of the query *)

\* whether a clause is a comparison of the work item type
IsTypeClause(clause) == "field" \in DOMAIN clause /\ clause.field = "System.WorkItemType"

\* C13: the query of a retry has no type clause and has exactly the state,
\* keyword, assignee, planned-from and planned-to clauses of the rejected
\* query, and the retry runs with the same page and page size
C13_RetryKeepsOtherFilters ==
    Len(qSent) = 2 =>
        LET rejected == ClausesOf(qSent[1].where)
            retried == ClausesOf(qSent[2].where)
        IN  /\ \A c \in retried : ~IsTypeClause(c)
            /\ retried = {c \in rejected : ~IsTypeClause(c)}
            /\ qArgs.page = ClampPage(qInput.page)
            /\ qArgs.page_size = ClampPageSize(qInput.page_size)

\* C14: when query_todos has ended and the answer to its last query was a
\* failure, query_todos has raised an error carrying the status code of that
\* answer; it has not returned a list
C14_QueryFailurePropagates ==
    (/\ qPc \in {"returned", "raised"}
     /\ qAnswers # <<>>
     /\ qAnswers[Len(qAnswers)] # 200)
    => /\ qPc = "raised"
       /\ qStatus = qAnswers[Len(qAnswers)]

-----------------------------------------------------------------------------
(* The parent relation under update_todo *)

\* C15: a work item that starts with at most one hierarchy-reverse relation
\* has at most one after any sequence of update_todo calls, whatever they set
\* parentId to and whether their pre-reads succeed or fail
C15_AtMostOneParent ==
    utPc # "off" => Cardinality(ParentPositions(item.relations)) <= 1

-----------------------------------------------------------------------------
(* The page of query_todos *)

\* C16: for every page and page size, query_todos works with page' =
\* max(page, 1) and pageSize' = min(max(pageSize, 1), 200), takes as ids
\* exactly the elements of the ordered id list at the offsets from
\* (page' - 1) * pageSize' up to, not including, (page' - 1) * pageSize' +
\* pageSize', and returns at most pageSize' items
C16_ClampedWindow ==
    pgPc \in {"hydrate", "returned"} =>
        LET page == IF pgPage >= 1 THEN pgPage ELSE 1
            atLeastOne == IF pgPageSize >= 1 THEN pgPageSize ELSE 1
            pageSize == IF atLeastOne <= 200 THEN atLeastOne ELSE 200
            first == (page - 1) * pageSize
            offsets == {o \in first..(first + pageSize - 1) : o < Len(pgWorkItems)}
        IN  /\ pgUsed = <<page, pageSize>>
            /\ Len(pgIds) = Cardinality(offsets)
            /\ \A i \in 1..Len(pgIds) : pgIds[i] = pgWorkItems[first + i]
            /\ Len(pgResult) <= pageSize

\* a page size over 200 was cut to 200 and the second page of 450 ids returned
C16_Witness ==
    /\ pgPc = "returned"
    /\ pgPage = 2 /\ pgPageSize > 200
    /\ Len(pgWorkItems) = 450
    /\ Len(pgIds) = 200 /\ pgIds[1] = pgWorkItems[201]
    /\ Len(pgResult) = 200

-----------------------------------------------------------------------------
(* The lists of tags and tree paths *)

\* C17: the list that list_tags, list_area_paths or list_iteration_paths
\* returns is in ascending order and has no string twice
C17_SortedUnique ==
    lsPc = "returned" =>
        \A i \in 1..(Len(lsResult) - 1) : StrLess(lsResult[i], lsResult[i + 1])

-----------------------------------------------------------------------------
(* The operations on the parent relation *)

\* the relation operations of a patch, in their order
RelationOpsOf(ops) == SelectSeq(ops, LAMBDA o : o.path \in {"/relations", "/relations/-"})

\* C18: with parentId touched, a new parent id other than the current
\* parent's gives, when a parent relation exists at position i, the removal
\* of /relations/i and after it one addition of a hierarchy-reverse relation
\* to the new id, and the addition alone when none exists; a null gives the
\* removal of /relations/i alone when a parent relation exists and no relation
\* operation when none does; every relation operation comes after every field
\* operation
C18_ParentOperations ==
    (bpPc = "built" /\ "parentId" \in DOMAIN bpData)
    => LET value == bpData["parentId"]
           new == IntOrNone(value)
           relationOps == RelationOpsOf(bpOps)
           removal == [op |-> "remove", path |-> "/relations", index |-> bpIndex.val]
           addition ==
               [op |-> "add", path |-> "/relations/-",
                value |-> [rel |-> "System.LinkTypes.Hierarchy-Reverse",
                           url |-> WorkItemUrl(new)]]
       IN  /\ (new # NONE /\ new # bpId)
                => relationOps = IF bpIndex # NONE THEN <<removal, addition>>
                                 ELSE <<addition>>
           /\ value = NONE
                => relationOps = IF bpIndex # NONE THEN <<removal>> ELSE <<>>
           /\ \A i, j \in 1..Len(bpOps) :
                  (i \in RelationOps(bpOps) /\ j \notin RelationOps(bpOps)) => j < i

\* a patch with a field operation, then the removal of the parent relation at
\* position 0, then the addition of the relation to work item 2
C18_Witness ==
    /\ bpPc = "built"
    /\ "parentId" \in DOMAIN bpData /\ bpData["parentId"] = Num(2)
    /\ bpIndex = Num(0) /\ bpId = Num(1)
    /\ Len(bpOps) >= 3
    /\ bpOps[Len(bpOps) - 1].op = "remove"
    /\ bpOps[Len(bpOps)].path = "/relations/-"

-----------------------------------------------------------------------------
(* The pre-read and the submission of update_todo *)

\* the operations of a patch that are not relation operations, in their order
FieldOpsOf(ops) == SelectSeq(ops, LAMBDA o : o.path \notin {"/relations", "/relations/-"})

\* the pre-read of the running call failed
PreReadFailed == utAnswers # <<>> /\ utAnswers[1] = Answer("GET", FALSE)

\* C19: when the pre-read has failed, update_todo has still submitted a patch;
\* the patch has every field operation it has with any outcome of the
\* pre-read, no removal, and the parent operations of an item without a
\* parent relation; and whenever the submission fails, update_todo raises
C19_PreReadFailureTolerated ==
    utPc = "done" =>
        /\ PreReadFailed =>
              /\ Len(utAnswers) = 2 /\ utAnswers[2].method = "PATCH"
              /\ \A e \in ExistingParents :
                    FieldOpsOf(utOps) =
                        FieldOpsOf(_build_patch_body(utData, <<"Proj">>, e[1], e[2],
                                                     LookupFailed, LookupFailed))
              /\ \A i \in 1..Len(utOps) : utOps[i].op # "remove"
              /\ RelationOpsOf(utOps) =
                    IF IntOrNone(utData["parentId"]) # NONE
                    THEN <<AddRelationOp(IntOrNone(utData["parentId"]).val)>>
                    ELSE <<>>
        /\ utAnswers[Len(utAnswers)] = Answer("PATCH", FALSE) => utError

\* the pre-read failed for an item that has a parent, and the patch with a
\* field operation and the addition of the new parent was accepted
C19_Witness ==
    /\ utPc = "done" /\ ~utError
    /\ PreReadFailed
    /\ "title" \in DOMAIN utData
    /\ Len(utOps) = 2
    /\ utOps[2] = AddRelationOp(2)
    /\ Cardinality(ParentPositions(item.relations)) = 2

\* the pre-read failed and then the submission failed: update_todo raised
C19_WitnessSubmissionFailed ==
    /\ utPc = "done" /\ utError
    /\ PreReadFailed

-----------------------------------------------------------------------------
(* The validation of tree paths against the known paths *)

\* the sets of normalized paths the project may have when a patch is built:
\* the one the lookup answered, or any of them when the lookup failed
LiveSets ==
    {{_normalize_tree_path(l.val[i]) : i \in 1..Len(l.val)} :
        l \in IF bpLookup = LookupFailed THEN Lookups \ {LookupFailed} ELSE {bpLookup}}

\* C20: with a project, a touched areaPath or iterationPath whose normalized
\* value is not among the known normalized paths of the project gives no
\* operation on its field, also when the lookup of the known paths fails; one
\* that is among them and is not a bare container name gives exactly one
\* operation on its field, with the normalized value
C20_UnknownPathDropped ==
    (bpPc = "built" /\ bpProject # <<>>)
    => \A key \in {"areaPath", "iterationPath"} \cap DOMAIN bpData :
          bpData[key].tag = "str" =>
              LET value == _normalize_tree_path(bpData[key].val)
                  set == OpsOn(bpOps, FieldPath(key))
              IN  \A known \in LiveSets :
                      /\ value \notin known => set = {}
                      /\ (value \in known /\ Lower(value) \notin ContainerNames)
                            => /\ Cardinality(set) = 1
                               /\ \A i \in set : bpOps[i].value = Str(value)

-----------------------------------------------------------------------------
(* The invocations of the query endpoint *)

\* a type filter was supplied and it is not the bare sentinel
TypeFilterSupplied == qInput.work_item_type # <<>> /\ qInput.work_item_type # <<"__NO_EPIC__">>

\* C21: a call of query_todos invokes the query endpoint at most twice; when
\* the call has ended, it has invoked it a second time exactly if the first
\* invocation was answered with 400 and a type filter other than the bare
\* sentinel was supplied; an answer to the second invocation, a failure
\* included, ends the call
C21_AtMostOneRetry ==
    /\ Len(qSent) <= 2
    /\ Len(qAnswers) <= Len(qSent)
    /\ qPc \in {"hydrate", "returned", "raised"} =>
          /\ Len(qSent) >= 1 /\ Len(qAnswers) = Len(qSent)
          /\ Len(qSent) = 2 <=> (qAnswers[1] = 400 /\ TypeFilterSupplied)
    /\ Len(qAnswers) = 2 => qPc \in {"hydrate", "returned", "raised"}

\* the retry was itself answered with 400 and the call ended there
C21_Witness ==
    /\ qPc = "returned"
    /\ Len(qSent) = 2
    /\ qAnswers = <<400, 400>>
    /\ TypeFilterSupplied

-----------------------------------------------------------------------------
(* The page of the aggregate against all matching items *)

\* all the items the queries of the projects match
AllMatching == UNION {{aggMatching[p][i] : i \in 1..Len(aggMatching[p])} : p \in Projects}

\* the items of AllMatching that the response returns
Returned == {x \in AllMatching : \E i \in 1..Len(aggResponse.todos) : aggResponse.todos[i].id = x.id}

AllFetched == \A p \in Projects : aggStatus[p] = "ok"

\* C22: when every fetch has succeeded, the items returned are a window
\* [(page-1)*pageSize, page*pageSize) of all the matching items of all the
\* projects in changedDate-descending order: as many items as that window
\* holds, in descending order, with (page-1)*pageSize of the other items
\* dated no earlier than them and the remaining ones dated no later
C22_WindowOfAllMatching ==
    (aggPc = "done" /\ AllFetched)
    => LET todos == aggResponse.todos
           total == Cardinality(AllMatching)
           start == (aggPage - 1) * aggPageSize
           before == IF start <= total THEN start ELSE total
           upTo == IF start + aggPageSize <= total THEN start + aggPageSize ELSE total
           others == AllMatching \ Returned
       IN  /\ Len(todos) = upTo - before
           /\ Cardinality(Returned) = Len(todos)
           /\ \A i \in 1..(Len(todos) - 1) : SortKey(todos[i]) >= SortKey(todos[i + 1])
           /\ \E earlier \in SUBSET others :
                 /\ Cardinality(earlier) = before
                 /\ \A x \in earlier, t \in Returned : SortKey(x) >= SortKey(t)
                 /\ \A x \in others \ earlier, t \in Returned : SortKey(x) <= SortKey(t)

\* the matching items of the projects whose fetch succeeded
Accessible == UNION {{aggMatching[p][i] : i \in 1..Len(aggMatching[p])} : p \in {q \in Projects : Succeeded(q)}}

\* C23: a response with hasMore false leaves no matching item of a fetched
\* project beyond its window: the projects hold no more than page * pageSize
\* matching items
C23_HasMoreFalseOnlyAtEnd ==
    (aggPc = "done" /\ ~aggResponse.error /\ ~aggResponse.hasMore)
    => Cardinality(Accessible) <= aggPage * aggPageSize

-----------------------------------------------------------------------------
(* Interleaved calls of update_todo *)

\* C24: whatever the interleaving of the pre-reads and submissions of the
\* callers, every positional removal the backend applies removes a relation
\* that is a hierarchy-reverse relation of the item when the patch is applied,
\* and it is the relation the submitting caller found at that position
C24_RemovalHitsParent ==
    \A k \in 1..Len(ccRemovals) :
        /\ ccRemovals[k].removed.rel = "System.LinkTypes.Hierarchy-Reverse"
        /\ ccRemovals[k].removed = ccRemovals[k].read

====
